---- MODULE Spec2Model ----
(***************************************************************************)
(* The macro-invocation resolver of librustc_resolve/macros.rs: the        *)
(* Resolver's implementation of syntax::ext::base::Resolver (scope marks,  *)
(* macro installation, attribute extraction, invocation resolution) and    *)
(* the definition collector that registers nested invocations.             *)
(***************************************************************************)
EXTENDS Integers, Sequences, FiniteSets, TLC

(* ------------------------------ bounds -------------------------------- *)

\* number of modules of the module tree (module 0 is the crate root)
NumModules == 3
\* number of marks Mark::fresh can hand out, mark 0 (the root) included
MaxMarks == 2
\* number of extension objects (Rc<SyntaxExtension>) that can be allocated
MaxExts == 2
\* number of node ids next_node_id can hand out
MaxNodeIds == 1
\* longest attribute list given to find_attr_invoc
MaxAttrs == 2
\* number of marks handed out where only the registry is followed
MaxNestedMarks == 3
\* number of node ids handed out where only the exported list is followed
MaxExported == 2

(* ------------------------------ values -------------------------------- *)

Modules == 0 .. (NumModules - 1)
\* the value of `parent: None`
NoModule == -1
\* graph_root
RootModule == 0
\* CRATE_DEF_INDEX
CRATE_DEF_INDEX == 0
\* Mark::root()
RootMark == 0
\* ast::DUMMY_NODE_ID stand-in: the id of a definition before it is exported
NoNodeId == 0

\* macro names, as the sequences of their characters
Name_m == <<"m">>
Name_n == <<"n">>
Name_macro_rules == <<"m", "a", "c", "r", "o", "_", "r", "u", "l", "e", "s">>
Names == {Name_m, Name_n, Name_macro_rules}

\* the names of the misspelt println: two known ones and the one looked up
Name_println == <<"p", "r", "i", "n", "t", "l", "n">>
Name_printfln == <<"p", "r", "i", "n", "t", "f", "l", "n">>
Name_prinltn == <<"p", "r", "i", "n", "l", "t", "n">>
SuggestNames == {Name_println, Name_printfln, Name_prinltn}

\* the variants of SyntaxExtension the resolver distinguishes
ExtKinds == {"NormalTT", "MultiModifier", "MultiDecorator", "AttrProcMacro"}
\* the absent value of Option<Rc<SyntaxExtension>> / of a missing map key
NoExt == [kind |-> "None", rc |-> 0]
\* an extension object: its variant and the identity of its allocation
Ext(kind, rc) == [kind |-> kind, rc |-> rc]

\* the def_index a nested invocation carries: that of no module
InvocDefIndexes == {NumModules}

\* struct ExpansionData
ExpansionData(module, def_index, const_integer) ==
    [module |-> module, def_index |-> def_index, const_integer |-> const_integer]

\* ExpansionData::root
ExpansionDataRoot(graph_root) ==
    ExpansionData(graph_root, CRATE_DEF_INDEX, FALSE)

\* module.def_id().unwrap().index: the definition index of a module
ModuleDefIndex(m) == m

(* ------------------------------ state --------------------------------- *)

VARIABLES
    parent,            \* Module::parent of every module
    macros_escape,     \* Module::macros_escape of every module
    macros,            \* Module::macros of every module: name -> extension
    expansion_data,    \* Resolver::expansion_data: mark -> ExpansionData
    macro_names,       \* Resolver::macro_names
    exported_macros,   \* Resolver::exported_macros
    next_node_id,      \* the session's node id counter
    next_mark,         \* the counter behind Mark::fresh
    next_rc,           \* the next extension object to be allocated
    panicked,          \* the compiler has aborted on a failed index or unwrap
    last               \* the last call: its arguments, return value, diagnostics

vars == <<parent, macros_escape, macros, expansion_data, macro_names,
          exported_macros, next_node_id, next_mark, next_rc,
          panicked, last>>

tree == <<parent, macros_escape>>

(* --------------------- nearest-name suggestion ------------------------ *)

Min2(a, b) == IF a <= b THEN a ELSE b
Max2(a, b) == IF a >= b THEN a ELSE b

\* one row of the edit-distance table: acc holds the new row's columns 0..j-1
RECURSIVE LevRow(_, _, _, _, _)
LevRow(prev, ch, b, j, acc) ==
    IF j > Len(b) THEN acc
    ELSE LET sub == prev[j] + (IF ch = b[j] THEN 0 ELSE 1)
             del == prev[j + 1] + 1
             ins == acc[j] + 1
             cell == Min2(Min2(del, ins), sub)
         IN IF cell >= 0 THEN LevRow(prev, ch, b, j + 1, Append(acc, cell))
            ELSE acc

\* the last row of the table, from row i on, prev being row i-1
RECURSIVE LevRows(_, _, _, _)
LevRows(a, b, i, prev) ==
    IF i > Len(a) THEN prev
    ELSE LET row == LevRow(prev, a[i], b, 1, <<i>>)
         IN IF Len(row) > 0 THEN LevRows(a, b, i + 1, row) ELSE row

\* lev_distance: the number of single-character edits from a to b
lev_distance(a, b) ==
    LevRows(a, b, 1, [j \in 1 .. (Len(b) + 1) |-> j - 1])[Len(b) + 1]

\* the edit distances between the names of the model, computed once
LevPairs ==
    {<<a, b, lev_distance(a, b)>> : a \in Names, b \in Names}
    \cup {<<a, b, lev_distance(a, b)>> : a \in SuggestNames, b \in SuggestNames}
Lev(a, b) == (CHOOSE t \in LevPairs : t[1] = a /\ t[2] = b)[3]

\* the absent value of Option<InternedString>
NoName == <<>>

\* find_best_match_for_name(candidates, lookup, None): the results it can
\* give; candidates no farther than max(len, 3) / 3 edits, the nearest one,
\* the first of them in the set's iteration order when several are nearest
BestMatches(candidates, lookup) ==
    LET max_dist == Max2(Len(lookup), 3) \div 3
        near == {c \in candidates : Lev(lookup, c) <= max_dist}
    IN IF near = {} THEN {NoName}
       ELSE {c \in near : \A d \in near : Lev(lookup, c) <= Lev(lookup, d)}

(* --------------------------- diagnostics ------------------------------ *)

NoHelp == [kind |-> "none", name |-> NoName]
Diag(msg, name, help) == [msg |-> msg, name |-> name, help |-> help]

ReservedNameError ==
    Diag("user-defined macros may not be named macro_rules", NoName, NoHelp)
MalformedPathError ==
    Diag("expected macro name without module separators", NoName, NoHelp)

\* SuggestHelp with the comparison the wrong way round
SuggestHelp_Swapped(suggestion, name) ==
    IF suggestion = NoName THEN NoHelp
    ELSE IF suggestion = name
         THEN [kind |-> "did you mean", name |-> suggestion]
         ELSE [kind |-> "have you added the #[macro_use] on the module/import?", name |-> NoName]

\* suggest_macro_name: the help attached for a best match
SuggestHelp(suggestion, name) ==
    IF suggestion = NoName THEN NoHelp
    ELSE IF suggestion # name
         THEN [kind |-> "did you mean", name |-> suggestion]
         ELSE [kind |-> "have you added the #[macro_use] on the module/import?", name |-> NoName]

\* the error "macro undefined" for a name, with its help
UndefinedError(name, suggestion) ==
    Diag("macro undefined", name, SuggestHelp(suggestion, name))

(* ------------------------------ inputs -------------------------------- *)

\* a path segment
Segment(identifier, parameters) ==
    [identifier |-> identifier, parameters |-> parameters]

\* the paths of call-style invocations: n, n::<T>, ::n and m::n for every
\* name n, and ::m::<T>
Path(segments, global) == [segments |-> segments, global |-> global]
Paths ==
    {Path(<<Segment(n, FALSE)>>, FALSE) : n \in Names}
    \cup {Path(<<Segment(n, TRUE)>>, FALSE) : n \in Names}
    \cup {Path(<<Segment(n, FALSE)>>, TRUE) : n \in Names}
    \cup {Path(<<Segment(Name_m, FALSE), Segment(n, FALSE)>>, FALSE) : n \in Names}
    \cup {Path(<<Segment(Name_m, TRUE)>>, TRUE)}

NoPath == Path(<<>>, FALSE)

\* Invocation: InvocationKind::Bang { mac } or InvocationKind::Attr { attr }
BangInvoc(path) == [kind |-> "Bang", path |-> path, attr |-> NoName]
AttrInvoc(name) == [kind |-> "Attr", path |-> NoPath, attr |-> name]
Invocations == {BangInvoc(p) : p \in Paths} \cup {AttrInvoc(n) : n \in Names}

\* ast::MacroDef
MacroDefs ==
    [ident : Names, use_locally : BOOLEAN, export : BOOLEAN, id : {NoNodeId}]

\* ast::Attribute: its name and which attribute of the item it is
Attribute(name, pos) == [name |-> name, pos |-> pos]
NoAttribute == [name |-> NoName, pos |-> 0]
AttrNames == {Name_m, Name_n}
AttrLists ==
    UNION {{[i \in 1 .. k |-> Attribute(f[i], i)] : f \in [1 .. k -> AttrNames]} :
                k \in 0 .. MaxAttrs}

\* map::MacroInvocationData of a nested invocation
NoInvoc == [id |-> 0, def_index |-> 0, const_integer |-> FALSE]
MacroInvocationData(id, def_index, const_integer) ==
    [id |-> id, def_index |-> def_index, const_integer |-> const_integer]

\* Expansion: whether it is Expansion::Expr, the macro invocation it holds
\* (if any), and whether that invocation is the whole expression
ExpansionOf(is_expr, invoc, at_top) ==
    [is_expr |-> is_expr, invoc |-> invoc, at_top |-> at_top]

(* ---------------------------- operations ------------------------------ *)

\* self.module_map[&id]: the module of the item with node id `id`
module_map(id) == id

\* macro_rules::compile: the rule-based extension of a definition
compile(def, rc) == Ext("NormalTT", rc)

\* KnownNamesWith with the test inverted
KnownNamesWith_Inverted(names, ident, ext) ==
    IF ext.kind # "NormalTT" THEN names \cup {ident} ELSE names

\* add_ext, the `if let NormalTT(..)`: the known names after the call
KnownNamesWith(names, ident, ext) ==
    IF ext.kind = "NormalTT" THEN names \cup {ident} ELSE names

\* EffectiveModule without the walk
EffectiveModule_Stay(par, esc, m) == m

\* EffectiveModule that stops at a module without a parent
RECURSIVE EffectiveModule_StopAtRoot(_, _, _)
EffectiveModule_StopAtRoot(par, esc, m) ==
    IF esc[m] /\ par[m] # NoModule
    THEN EffectiveModule_StopAtRoot(par, esc, par[m])
    ELSE m

\* EffectiveModule with an `if` for the `while`: one step up at most
EffectiveModule_OneStep(par, esc, m) ==
    IF esc[m] THEN par[m] ELSE m

\* add_ext, the `while module.macros_escape` walk: the module it ends at,
\* NoModule when `module.parent.unwrap()` fails
RECURSIVE EffectiveModule(_, _, _)
EffectiveModule(par, esc, m) ==
    IF esc[m]
    THEN IF par[m] = NoModule THEN NoModule ELSE EffectiveModule(par, esc, par[m])
    ELSE m

\* ScopeInsert replacing the module's table by the new binding alone
ScopeInsert_Clearing(tables, module, ident, ext) ==
    [tables EXCEPT ![module] = [n \in Names |-> IF n = ident THEN ext ELSE NoExt]]

\* add_ext, `module.macros.borrow_mut().insert(ident.name, ext)`
ScopeInsert(tables, module, ident, ext) ==
    [tables EXCEPT ![module][ident] = ext]

\* add_ext: what it leaves behind
AddExt(scope, ident, ext) ==
    LET names1 == KnownNamesWith(macro_names, ident, ext)
        failed == [macro_names |-> names1, macros |-> macros, panicked |-> TRUE]
    IN IF scope \notin DOMAIN expansion_data THEN failed
       ELSE LET module == EffectiveModule(parent, macros_escape,
                                          expansion_data[scope].module)
            IN IF module = NoModule THEN failed
               ELSE [macro_names |-> names1,
                     macros |-> ScopeInsert(macros, module, ident, ext),
                     panicked |-> FALSE]

\* PathIsMalformed that only counts the segments
PathIsMalformed_SegmentsOnly(path) ==
    Len(path.segments) > 1

\* resolve_invoc, the check of a call-style path
PathIsMalformed(path) ==
    \/ Len(path.segments) > 1
    \/ path.global
    \/ path.segments[1].parameters

\* resolve_invoc, the `match invoc.kind`: the name looked up
InvocName(invoc) ==
    IF invoc.kind = "Bang" THEN invoc.path.segments[1].identifier ELSE invoc.attr

\* WalkScopes that lets an ancestor's binding win over the module's own
RECURSIVE WalkScopes_OutermostFirst(_, _, _, _, _)
WalkScopes_OutermostFirst(par, tables, m, name, looked) ==
    LET own == [ext |-> tables[m][name], lookups |-> looked + 1]
    IN IF par[m] = NoModule THEN own
       ELSE LET up == WalkScopes_OutermostFirst(par, tables, par[m], name, looked + 1)
            IN IF up.ext # NoExt THEN up ELSE own

\* WalkScopes that never moves to the parent
WalkScopes_NoParents(par, tables, m, name, looked) ==
    [ext |-> tables[m][name], lookups |-> looked + 1]

\* resolve_invoc, the `loop`: the extension found (NoExt if none) and the
\* number of scope tables consulted, walking up from module m
RECURSIVE WalkScopes(_, _, _, _, _)
WalkScopes(par, tables, m, name, looked) ==
    IF tables[m][name] # NoExt
    THEN [ext |-> tables[m][name], lookups |-> looked + 1]
    ELSE IF par[m] # NoModule
         THEN WalkScopes(par, tables, par[m], name, looked + 1)
         ELSE [ext |-> NoExt, lookups |-> looked + 1]

\* resolve_invoc: the value returned, the tables consulted, the diagnostics
\* it can emit (one sequence per result find_best_match_for_name can give)
ResolveInvoc(par, tables, registry, known, scope, invoc) ==
    IF invoc.kind = "Bang" /\ PathIsMalformed(invoc.path)
    THEN [ret |-> NoExt, lookups |-> 0, diags |-> {<<MalformedPathError>>},
          panicked |-> FALSE]
    ELSE IF scope \notin DOMAIN registry
    THEN [ret |-> NoExt, lookups |-> 0, diags |-> {<<>>}, panicked |-> TRUE]
    ELSE LET name == InvocName(invoc)
             w == WalkScopes(par, tables, registry[scope].module, name, 0)
         IN IF w.ext # NoExt
            THEN [ret |-> w.ext, lookups |-> w.lookups, diags |-> {<<>>},
                  panicked |-> FALSE]
            ELSE [ret |-> NoExt, lookups |-> w.lookups,
                  diags |-> {<<UndefinedError(name, s)>> :
                                 s \in BestMatches(known, name)},
                  panicked |-> FALSE]

\* IsAttrExt without the MultiDecorator arm
IsAttrExt_NoDecorator(ext) ==
    ext.kind \in {"MultiModifier", "AttrProcMacro"}

\* find_attr_invoc, the match on the extension bound to an attribute's name
IsAttrExt(ext) ==
    ext.kind \in {"MultiModifier", "MultiDecorator", "AttrProcMacro"}

\* find_attr_invoc, the `for i in 0..attrs.len()`: the index of the attribute
\* taken out, scanning from index i; 0 if the loop runs out
RECURSIVE FindAttrIndex(_, _, _)
FindAttrIndex(table, attrs, i) ==
    IF i > Len(attrs) THEN 0
    ELSE IF IsAttrExt(table[attrs[i].name]) THEN i
         ELSE FindAttrIndex(table, attrs, i + 1)

\* Vec::remove(i)
Remove(seq, i) == SubSeq(seq, 1, i - 1) \o SubSeq(seq, i + 1, Len(seq))

\* FindAttrInvoc that looks in the module of the newest mark
FindAttrInvoc_NewestMark(tables, registry, attrs) ==
    LET newest == CHOOSE k \in DOMAIN registry : \A j \in DOMAIN registry : j <= k
        i == FindAttrIndex(tables[registry[newest].module], attrs, 1)
    IN IF i = 0
       THEN [ret |-> NoAttribute, attrs |-> attrs, panicked |-> FALSE]
       ELSE [ret |-> attrs[i], attrs |-> Remove(attrs, i), panicked |-> FALSE]

\* find_attr_invoc: the attribute returned and the list left behind
FindAttrInvoc(tables, registry, attrs) ==
    IF attrs = <<>>
    THEN [ret |-> NoAttribute, attrs |-> attrs, panicked |-> FALSE]
    ELSE IF RootMark \notin DOMAIN registry
    THEN [ret |-> NoAttribute, attrs |-> attrs, panicked |-> TRUE]
    ELSE LET i == FindAttrIndex(tables[registry[RootMark].module], attrs, 1)
         IN IF i = 0
            THEN [ret |-> NoAttribute, attrs |-> attrs, panicked |-> FALSE]
            ELSE [ret |-> attrs[i], attrs |-> Remove(attrs, i), panicked |-> FALSE]

\* HashMap::entry(key).or_insert(value)
OrInsert(map, key, value) ==
    IF key \in DOMAIN map THEN map
    ELSE [k \in DOMAIN map \cup {key} |-> IF k = key THEN value ELSE map[k]]

\* HashMap::insert(key, value)
Insert(map, key, value) ==
    [k \in DOMAIN map \cup {key} |-> IF k = key THEN value ELSE map[k]]

\* VisitMode without the test for Expansion::Expr
VisitMode_NarrowsAlways(const_integer, expansion) ==
    IF ~const_integer THEN "all" ELSE "const_integer"

\* collect_def_ids, the closure given to with_parent: what is visited
VisitMode(const_integer, expansion) ==
    IF ~const_integer THEN "all"
    ELSE IF expansion.is_expr THEN "const_integer"
    ELSE "none"

\* whether the walk reaches the nested invocation of the expansion:
\* visit_with reaches every node, visit_ast_const_integer only the
\* expression itself
VisitsInvoc(mode, expansion) ==
    /\ expansion.invoc # NoInvoc
    /\ \/ mode = "all"
       \/ mode = "const_integer" /\ expansion.at_top

\* VisitMacroInvoc with insert for entry().or_insert()
VisitMacroInvoc_Overwriting(registry, module, invoc) ==
    Insert(registry, invoc.id,
           ExpansionData(module, invoc.def_index, invoc.const_integer))

\* VisitMacroInvoc that takes the module of the root expansion
VisitMacroInvoc_RootModule(registry, module, invoc) ==
    OrInsert(registry, invoc.id,
             ExpansionData(registry[RootMark].module, invoc.def_index,
                           invoc.const_integer))

\* collect_def_ids, the visit_macro_invoc closure
VisitMacroInvoc(registry, module, invoc) ==
    OrInsert(registry, invoc.id,
             ExpansionData(module, invoc.def_index, invoc.const_integer))

\* collect_def_ids: the mark of the invocation handed to visit_macro_invoc,
\* 0 if none is
VisitedInvoc(registry, mark, expansion) ==
    IF VisitsInvoc(VisitMode(registry[mark].const_integer, expansion), expansion)
    THEN expansion.invoc.id ELSE 0

\* CollectDefIds that writes the entry under the mark being collected
CollectDefIds_UnderCollectedMark(registry, mark, expansion) ==
    IF VisitedInvoc(registry, mark, expansion) # 0
    THEN Insert(registry, mark,
                ExpansionData(registry[mark].module, expansion.invoc.def_index,
                              expansion.invoc.const_integer))
    ELSE registry

\* collect_def_ids: the registry it leaves behind
CollectDefIds(registry, mark, expansion) ==
    IF VisitedInvoc(registry, mark, expansion) # 0
    THEN VisitMacroInvoc(registry, registry[mark].module, expansion.invoc)
    ELSE registry

(* ------------------------------ actions ------------------------------- *)

\* marks handed out so far
MintedMarks == 0 .. (next_mark - 1)

\* what is kept of the last call: the operation, the value it returned and
\* the diagnostics it emitted
Call(op, ret, diag) == [op |-> op, ret |-> ret, diag |-> diag]
NoCall == Call("none", 0, <<>>)

\* get_module_scope that writes under the mark handed out last
get_module_scope_StaleMark(id) ==
    /\ ~panicked
    /\ LET mark == next_mark - 1
           module == module_map(id)
       IN /\ expansion_data' =
                Insert(expansion_data, mark,
                       ExpansionData(module, ModuleDefIndex(module), FALSE))
          /\ last' = Call("get_module_scope", mark, <<>>)
    /\ next_mark' = next_mark + 1
    /\ UNCHANGED <<tree, macros, macro_names, exported_macros,
                   next_node_id, next_rc, panicked>>

\* get_module_scope that hands out the mark without an entry for it
get_module_scope_NoInsert(id) ==
    /\ ~panicked
    /\ last' = Call("get_module_scope", next_mark, <<>>)
    /\ next_mark' = next_mark + 1
    /\ UNCHANGED <<tree, macros, expansion_data, macro_names, exported_macros,
                   next_node_id, next_rc, panicked>>

\* get_module_scope(id)
get_module_scope(id) ==
    /\ ~panicked
    /\ LET mark == next_mark
           module == module_map(id)
       IN /\ expansion_data' =
                Insert(expansion_data, mark,
                       ExpansionData(module, ModuleDefIndex(module), FALSE))
          /\ last' = Call("get_module_scope", mark, <<>>)
    /\ next_mark' = next_mark + 1
    /\ UNCHANGED <<tree, macros, macro_names, exported_macros,
                   next_node_id, next_rc, panicked>>

\* add_ext(scope, ident, ext), ext a newly allocated extension of some kind
add_ext(scope, ident, kind) ==
    /\ ~panicked
    /\ next_rc <= MaxExts
    /\ LET ext == Ext(kind, next_rc)
           r == AddExt(scope, ident, ext)
       IN /\ macro_names' = r.macro_names
          /\ macros' = r.macros
          /\ panicked' = r.panicked
          /\ last' = Call("add_ext", 0, <<>>)
    /\ next_rc' = next_rc + 1
    /\ UNCHANGED <<tree, expansion_data, exported_macros,
                   next_node_id, next_mark>>

\* InstallsLocally that skips a definition named macro_rules
InstallsLocally_UnlessReserved(def) ==
    def.use_locally /\ def.ident # Name_macro_rules

\* add_macro, `if def.use_locally`
InstallsLocally(def) == def.use_locally

\* Exports that skips a definition not used locally
Exports_OnlyIfLocal(def) == def.export /\ def.use_locally

\* add_macro, `if def.export`
Exports(def) == def.export

\* self.session.next_node_id(): an id the session has not handed out yet
FreshNodeId == next_node_id

\* add_macro(scope, def)
add_macro(scope, def) ==
    /\ ~panicked
    /\ InstallsLocally(def) => next_rc <= MaxExts
    /\ LET diag == IF def.ident = Name_macro_rules
                   THEN <<ReservedNameError>> ELSE <<>>
           ext == compile(def, next_rc)
           r == IF InstallsLocally(def)
                THEN AddExt(scope, def.ident, ext)
                ELSE [macro_names |-> macro_names, macros |-> macros,
                      panicked |-> FALSE]
           exporting == Exports(def) /\ ~r.panicked
       IN /\ macro_names' = r.macro_names
          /\ macros' = r.macros
          /\ panicked' = r.panicked
          /\ next_rc' = IF InstallsLocally(def) THEN next_rc + 1 ELSE next_rc
          /\ next_node_id' = IF exporting THEN next_node_id + 1 ELSE next_node_id
          /\ exported_macros' =
                IF exporting
                THEN Append(exported_macros, [def EXCEPT !.id = FreshNodeId])
                ELSE exported_macros
          /\ last' = Call("add_macro", 0, diag)
    /\ UNCHANGED <<tree, expansion_data, next_mark>>

\* find_attr_invoc(attrs)
find_attr_invoc(attrs) ==
    /\ ~panicked
    /\ LET r == FindAttrInvoc(macros, expansion_data, attrs)
       IN /\ panicked' = r.panicked
          /\ last' = Call("find_attr_invoc", [attr |-> r.ret, attrs |-> r.attrs], <<>>)
    /\ UNCHANGED <<tree, macros, expansion_data, macro_names, exported_macros, next_node_id, next_mark, next_rc>>

\* resolve_invoc that keeps what it found in the table of the mark's module
resolve_invoc_Caching(scope, invoc) ==
    /\ ~panicked
    /\ LET r == ResolveInvoc(parent, macros, expansion_data, macro_names,
                             scope, invoc)
       IN /\ panicked' = r.panicked
          /\ macros' = IF r.ret # NoExt
                       THEN ScopeInsert(macros, expansion_data[scope].module,
                                        InvocName(invoc), r.ret)
                       ELSE macros
          /\ \E diag \in r.diags :
                last' = Call("resolve_invoc", r.ret, diag)
    /\ UNCHANGED <<tree, expansion_data, macro_names, exported_macros, next_node_id, next_mark, next_rc>>

\* resolve_invoc(scope, invoc)
resolve_invoc(scope, invoc) ==
    /\ ~panicked
    /\ LET r == ResolveInvoc(parent, macros, expansion_data, macro_names,
                             scope, invoc)
       IN /\ panicked' = r.panicked
          /\ \E diag \in r.diags :
                last' = Call("resolve_invoc", r.ret, diag)
    /\ UNCHANGED <<tree, macros, expansion_data, macro_names, exported_macros, next_node_id, next_mark, next_rc>>

\* visit_expansion(mark, expansion): collect_def_ids, then the assignment of
\* current_module, which only the graph builder run on the expansion reads:
\* it is kept with the call. The nested invocation of the expansion carries
\* a mark handed out before, or the one the expander takes from Mark::fresh
\* for it.
visit_expansion(mark, expansion) ==
    /\ ~panicked
    /\ expansion.invoc # NoInvoc => expansion.invoc.id <= next_mark
    /\ next_mark' = IF expansion.invoc # NoInvoc /\ expansion.invoc.id = next_mark
                    THEN next_mark + 1 ELSE next_mark
    /\ IF mark \notin DOMAIN expansion_data
       THEN /\ panicked' = TRUE
            /\ last' = Call("visit_expansion",
                             [visit |-> "none", invoc |-> 0,
                              current_module |-> NoModule], <<>>)
            /\ UNCHANGED expansion_data
       ELSE /\ expansion_data' = CollectDefIds(expansion_data, mark, expansion)
            /\ last' = Call("visit_expansion",
                             [visit |-> VisitMode(expansion_data[mark].const_integer,
                                                  expansion),
                              invoc |-> VisitedInvoc(expansion_data, mark, expansion),
                              current_module |-> expansion_data'[mark].module],
                             <<>>)
            /\ UNCHANGED panicked
    /\ UNCHANGED <<tree, macros, macro_names, exported_macros, next_node_id,
                   next_rc>>

\* the expansions handed to visit_expansion: without a nested invocation, or
\* with one whose mark is at most k
ExpansionsUpTo(k) ==
    {ExpansionOf(e, NoInvoc, FALSE) : e \in BOOLEAN}
    \cup {ExpansionOf(e, MacroInvocationData(id, d, c), t) :
            e \in BOOLEAN, id \in 1 .. k, d \in InvocDefIndexes,
            c \in BOOLEAN, t \in BOOLEAN}
Expansions == ExpansionsUpTo(MaxMarks - 1)

(* --------------------------- specification ---------------------------- *)

\* the module trees: a chain of nested modules under the crate root, the
\* innermost one a scope whose macros escape; the crate root's do not
ParentMaps ==
    {p \in [Modules -> Modules \cup {NoModule}] :
        \A m \in Modules : p[m] = IF m = RootModule THEN NoModule ELSE m - 1}
EscapeMaps ==
    {e \in [Modules -> BOOLEAN] : ~e[RootModule] /\ e[NumModules - 1]}

Init ==
    /\ parent \in ParentMaps
    /\ macros_escape \in EscapeMaps
    /\ macros = [m \in Modules |-> [n \in Names |-> NoExt]]
    /\ expansion_data = (RootMark :> ExpansionDataRoot(RootModule))
    /\ macro_names = {}
    /\ exported_macros = <<>>
    /\ next_node_id = 1
    /\ next_mark = 1
    /\ next_rc = 1
    /\ panicked = FALSE
    /\ last = NoCall

Next ==
    \/ \E id \in Modules : next_mark < MaxMarks /\ get_module_scope(id)
    \/ \E scope \in MintedMarks, ident \in Names, kind \in ExtKinds :
          add_ext(scope, ident, kind)
    \/ \E scope \in MintedMarks, def \in MacroDefs :
          (def.export => next_node_id <= MaxNodeIds) /\ add_macro(scope, def)
    \/ \E attrs \in AttrLists : find_attr_invoc(attrs)
    \/ \E scope \in MintedMarks, invoc \in Invocations : resolve_invoc(scope, invoc)
    \/ \E mark \in MintedMarks, expansion \in Expansions :
          visit_expansion(mark, expansion)

Spec == Init /\ [][Next]_vars

\* the registry alone, one mark deeper: scope marks and collection
ExpansionsNested == ExpansionsUpTo(MaxNestedMarks - 1)
NextRegistry ==
    \/ \E id \in Modules : next_mark < MaxNestedMarks /\ get_module_scope(id)
    \/ \E mark \in MintedMarks, expansion \in ExpansionsNested :
          visit_expansion(mark, expansion)

SpecRegistry == Init /\ [][NextRegistry]_vars

\* the suggestion of a failed resolve: the scope tables hold the names of
\* the misspelt println, bound by add_ext and looked up by resolve_invoc
SuggestKinds == {"NormalTT", "MultiModifier"}
InitSuggest ==
    /\ parent \in ParentMaps
    /\ macros_escape \in EscapeMaps
    /\ macros = [m \in Modules |-> [n \in SuggestNames |-> NoExt]]
    /\ expansion_data = (RootMark :> ExpansionDataRoot(RootModule))
    /\ macro_names = {}
    /\ exported_macros = <<>>
    /\ next_node_id = 1
    /\ next_mark = 1
    /\ next_rc = 1
    /\ panicked = FALSE
    /\ last = NoCall

NextSuggest ==
    \/ \E id \in Modules : next_mark < MaxMarks /\ get_module_scope(id)
    \/ \E scope \in MintedMarks, ident \in SuggestNames, kind \in SuggestKinds :
          add_ext(scope, ident, kind)
    \/ \E scope \in MintedMarks, n \in SuggestNames :
          resolve_invoc(scope, BangInvoc(Path(<<Segment(n, FALSE)>>, FALSE)))

SpecSuggest == InitSuggest /\ [][NextSuggest]_vars

\* the exported definitions: scope marks and add_macro, one node id more
NextExport ==
    \/ \E id \in Modules : next_mark < MaxMarks /\ get_module_scope(id)
    \/ \E scope \in MintedMarks, def \in MacroDefs :
          (def.export => next_node_id <= MaxExported) /\ add_macro(scope, def)

SpecExport == Init /\ [][NextExport]_vars

\* the two upward walks on every module tree: every tree of the modules
\* (a parent has a smaller index), every choice of the escaping modules,
\* the crate root among them
AllParentMaps ==
    {p \in [Modules -> Modules \cup {NoModule}] :
        /\ p[RootModule] = NoModule
        /\ \A m \in Modules \ {RootModule} : p[m] \in Modules /\ p[m] < m}
AllEscapeMaps == [Modules -> BOOLEAN]

InitTrees ==
    /\ parent \in AllParentMaps
    /\ macros_escape \in AllEscapeMaps
    /\ macros = [m \in Modules |-> [n \in Names |-> NoExt]]
    /\ expansion_data = (RootMark :> ExpansionDataRoot(RootModule))
    /\ macro_names = {}
    /\ exported_macros = <<>>
    /\ next_node_id = 1
    /\ next_mark = 1
    /\ next_rc = 1
    /\ panicked = FALSE
    /\ last = NoCall

NextTrees ==
    \/ \E id \in Modules : next_mark < MaxMarks /\ get_module_scope(id)
    \/ \E scope \in MintedMarks, ident \in Names, kind \in SuggestKinds :
          add_ext(scope, ident, kind)
    \/ \E scope \in MintedMarks, n \in Names :
          resolve_invoc(scope, BangInvoc(Path(<<Segment(n, FALSE)>>, FALSE)))

SpecTrees == InitTrees /\ [][NextTrees]_vars

(* ------------------------ reading the claims -------------------------- *)

\* the parent chain of a module: the module, its parent, ... up to the root
RECURSIVE ParentChain(_, _)
ParentChain(par, m) ==
    IF par[m] = NoModule THEN <<m>> ELSE <<m>> \o ParentChain(par, par[m])

\* the least member of a non-empty set of numbers
Least(S) == CHOOSE i \in S : \A j \in S : i <= j

\* the binding of a name in the nearest module of the chain that has one
NearestBinding(par, tables, m, name) ==
    LET chain == ParentChain(par, m)
        hits == {i \in 1 .. Len(chain) : tables[chain[i]][name] # NoExt}
    IN IF hits = {} THEN NoExt ELSE tables[chain[Least(hits)]][name]

\* the nearest module of the chain whose macros do not escape
NearestNonEscaping(par, esc, m) ==
    LET chain == ParentChain(par, m)
        hits == {i \in 1 .. Len(chain) : ~esc[chain[i]]}
    IN IF hits = {} THEN NoModule ELSE chain[Least(hits)]

\* module d is module M or one of its descendants
InSubtree(par, d, M) ==
    \E i \in 1 .. Len(ParentChain(par, d)) : ParentChain(par, d)[i] = M

\* the modules from d up to its ancestor M, both included
ModulesUpTo(par, d, M) ==
    LET chain == ParentChain(par, d)
    IN {chain[i] : i \in {i \in 1 .. Len(chain) :
                            \E j \in i .. Len(chain) : chain[j] = M}}

\* an invocation that passes the path check: attribute-style, or call-style
\* with one segment, no root qualifier and no generic parameters
WellFormed(invoc) ==
    \/ invoc.kind = "Attr"
    \/ /\ Len(invoc.path.segments) = 1
       /\ ~invoc.path.global
       /\ ~invoc.path.segments[1].parameters

\* the name an invocation ends in
NameOf(invoc) ==
    IF invoc.kind = "Attr" THEN invoc.attr
    ELSE invoc.path.segments[Len(invoc.path.segments)].identifier

\* the call-style invocation n!()
CallOf(n) == BangInvoc(Path(<<Segment(n, FALSE)>>, FALSE))

\* resolve_invoc in the current state and in the next one
Resolve(scope, invoc) ==
    ResolveInvoc(parent, macros, expansion_data, macro_names, scope, invoc)
ResolveNext(scope, invoc) ==
    ResolveInvoc(parent', macros', expansion_data', macro_names', scope, invoc)

\* the extension allocated last
NewestRc == next_rc - 1

(* ------------------------------ claims -------------------------------- *)

\* C1: from every registered mark, resolve of a well-formed invocation of a
\* name returns the binding of the nearest module on the parent chain of the
\* mark's module that binds the name (none if no module of the chain does):
\* a child's binding wins over an ancestor's, a root-only binding is found
\* from every nested module.
C1_ResolveNearestBinding ==
    \A scope \in DOMAIN expansion_data, invoc \in Invocations :
        WellFormed(invoc) =>
            Resolve(scope, invoc).ret =
                NearestBinding(parent, macros, expansion_data[scope].module,
                               NameOf(invoc))

\* a resolve has returned the binding of a nested module whose ancestor binds
\* the same name to another extension
C1_Witness ==
    /\ last.op = "resolve_invoc"
    /\ last.ret # NoExt
    /\ \E scope \in DOMAIN expansion_data, n \in Names :
          LET chain == ParentChain(parent, expansion_data[scope].module)
          IN /\ Len(chain) > 1
             /\ macros[chain[1]][n] = last.ret
             /\ \E i \in 2 .. Len(chain) :
                   macros[chain[i]][n] \notin {NoExt, last.ret}

\* C2 as stated: once a name is bound in module M, every later resolve of it
\* from a mark in M or in a descendant of M returns the definition that was
\* bound in M.
C2_FirstBindingForever ==
    [][\A M \in Modules, n \in Names :
          macros[M][n] # NoExt =>
             \A scope \in DOMAIN expansion_data' :
                InSubtree(parent, expansion_data'[scope].module, M) =>
                   ResolveNext(scope, CallOf(n)).ret = macros[M][n]]_vars

\* C2, amended: once a name is bound in module M it stays bound there, and
\* every resolve of it from a mark in M or in a descendant of M succeeds; a
\* step that binds the name anew neither in M nor in a module between the
\* mark's module and M leaves the definition returned the same.
C2_BoundStaysResolvable ==
    /\ [](\A M \in Modules, n \in Names, scope \in DOMAIN expansion_data :
             ( /\ macros[M][n] # NoExt
               /\ InSubtree(parent, expansion_data[scope].module, M) )
             => Resolve(scope, CallOf(n)).ret # NoExt)
    /\ [][\/ UNCHANGED <<parent, macros, expansion_data>>
          \/ \A M \in Modules, n \in Names :
                macros[M][n] # NoExt =>
                   /\ macros'[M][n] # NoExt
                   /\ \A scope \in DOMAIN expansion_data :
                         ( /\ InSubtree(parent, expansion_data[scope].module, M)
                           /\ \A K \in ModulesUpTo(parent,
                                          expansion_data[scope].module, M) :
                                 macros'[K][n] = macros[K][n] )
                         => ResolveNext(scope, CallOf(n)).ret
                               = Resolve(scope, CallOf(n)).ret]_vars

\* a resolve has returned the second extension allocated, which took the
\* place of the first one in its scope table
C2_Witness ==
    /\ last.op = "resolve_invoc"
    /\ last.ret # NoExt
    /\ last.ret.rc = 2
    /\ \A m \in Modules, n \in Names : macros[m][n].rc # 1

\* the binding of ident made by this step sits in the nearest module, from
\* the scope's module up, whose macros do not escape, and no other entry of
\* any scope table has changed
RoutedToNearestNonEscaping(scope, ident) ==
    LET target == NearestNonEscaping(parent, macros_escape,
                                     expansion_data[scope].module)
    IN /\ target # NoModule
       /\ ~macros_escape[target]
       /\ macros'[target][ident].rc = next_rc
       /\ \A m \in Modules, n \in Names :
             (m # target \/ n # ident) => macros'[m][n] = macros[m][n]

\* C3: install and register_extension put the binding into the module of the
\* scope mark when its macros do not escape, else into its nearest ancestor
\* whose macros do not escape, and leave every other scope table (those of
\* the escaping modules passed on the way among them) unchanged.
C3_EscapeRouting ==
    [][/\ last'.op = "add_ext" =>
             \A scope \in DOMAIN expansion_data, ident \in Names, kind \in ExtKinds :
                add_ext(scope, ident, kind)
                   => RoutedToNearestNonEscaping(scope, ident)
       /\ last'.op = "add_macro" =>
             \A scope \in DOMAIN expansion_data, def \in MacroDefs :
                (def.use_locally /\ add_macro(scope, def))
                   => RoutedToNearestNonEscaping(scope, def.ident)]_vars

\* an install has put its binding into a module no mark is registered for: it
\* came from a mark of an escaping module below, whose own table is empty
C3_Witness ==
    /\ last.op \in {"add_ext", "add_macro"}
    /\ ~panicked
    /\ \E m \in Modules, n \in Names :
          /\ macros[m][n] # NoExt
          /\ macros[m][n].rc = NewestRc
          /\ \A scope \in DOMAIN expansion_data : expansion_data[scope].module # m
          /\ \E scope \in DOMAIN expansion_data :
                /\ macros_escape[expansion_data[scope].module]
                /\ InSubtree(parent, expansion_data[scope].module, m)
                /\ \A k \in Names : macros[expansion_data[scope].module][k] = NoExt

\* C4 as stated: install of a definition named macro_rules reports the error
\* and does not install it: after the call no scope table binds macro_rules
\* to it.
C4_ReservedNameNotInstalled ==
    [][last'.op = "add_macro" =>
          \A scope \in DOMAIN expansion_data, def \in MacroDefs :
             (def.ident = Name_macro_rules /\ add_macro(scope, def)) =>
                /\ last'.diag = <<ReservedNameError>>
                /\ \A m \in Modules :
                      macros'[m][Name_macro_rules] # compile(def, next_rc)]_vars

\* C4, amended: install of a definition named macro_rules reports the error
\* and goes on as for any other name: with use_locally set, the scope table of
\* the nearest module without escaping macros, from the mark's module up,
\* binds macro_rules to the definition after the call; with use_locally unset
\* no scope table changes.
C4_ReservedNameReportedAndInstalled ==
    [][last'.op = "add_macro" =>
          \A scope \in DOMAIN expansion_data, def \in MacroDefs :
             (def.ident = Name_macro_rules /\ add_macro(scope, def)) =>
                /\ last'.diag = <<ReservedNameError>>
                /\ IF def.use_locally
                   THEN /\ macros'[NearestNonEscaping(parent, macros_escape,
                                      expansion_data[scope].module)][Name_macro_rules]
                              = compile(def, next_rc)
                   ELSE macros' = macros]_vars

\* an install has reported the reserved name and a scope table binds
\* macro_rules to the extension it made
C4_Witness ==
    /\ last.op = "add_macro"
    /\ last.diag = <<ReservedNameError>>
    /\ \E m \in Modules :
          /\ macros[m][Name_macro_rules] # NoExt
          /\ macros[m][Name_macro_rules].rc = NewestRc

\* C5: resolve of a call-style invocation whose path has several segments, a
\* root qualifier or generic parameters returns no binding, emits "expected
\* macro name without module separators" and consults no scope table (nor
\* the registry), whatever is bound to the names of the path.
C5_MalformedPathRejected ==
    \A scope \in MintedMarks, invoc \in Invocations :
        ~WellFormed(invoc) =>
            Resolve(scope, invoc) =
                [ret |-> NoExt, lookups |-> 0,
                 diags |-> {<<MalformedPathError>>}, panicked |-> FALSE]

\* a resolve has rejected a path while both short names are bound on the
\* chain of every registered mark
C5_Witness ==
    /\ last.op = "resolve_invoc"
    /\ last.diag = <<MalformedPathError>>
    /\ last.ret = NoExt
    /\ ~panicked
    /\ \A scope \in DOMAIN expansion_data, n \in {Name_m, Name_n} :
          NearestBinding(parent, macros, expansion_data[scope].module, n) # NoExt

\* no module of the parent chain of the mark's module binds the name
UnboundOnChain(scope, name) ==
    \A i \in 1 .. Len(ParentChain(parent, expansion_data[scope].module)) :
        macros[ParentChain(parent, expansion_data[scope].module)[i]][name] = NoExt

\* C6: resolve of a well-formed invocation from a registered mark returns no
\* binding exactly when no module of the parent chain binds the name; it
\* then emits one "macro undefined" diagnostic naming it, and none when it
\* succeeds; it never aborts.
C6_UndefinedIffUnboundOnChain ==
    /\ \A scope \in DOMAIN expansion_data, invoc \in Invocations :
          WellFormed(invoc) =>
             LET r == Resolve(scope, invoc)
                 unbound == UnboundOnChain(scope, NameOf(invoc))
             IN /\ ~r.panicked
                /\ unbound <=> r.ret = NoExt
                /\ unbound =>
                      \A d \in r.diags :
                         /\ Len(d) = 1
                         /\ d[1].msg = "macro undefined"
                         /\ d[1].name = NameOf(invoc)
                /\ ~unbound => r.diags = {<<>>}
    /\ (last.op = "resolve_invoc" /\ last.diag # <<>>) =>
          (~panicked /\ last.ret = NoExt)

\* a resolve has reported a name undefined that some scope table binds
C6_Witness ==
    /\ last.op = "resolve_invoc"
    /\ ~panicked
    /\ Len(last.diag) = 1
    /\ last.diag[1].msg = "macro undefined"
    /\ \E m \in Modules : macros[m][last.diag[1].name] # NoExt

\* C7: when collect meets a nested invocation whose mark has an entry, the
\* registry stays as it is: the first-registered module, identity root and
\* numeric-context flag remain. Read from the other side: a step that
\* changes the registry is no collect of such an invocation.
C7_FirstWriterWins ==
    [][\/ expansion_data' = expansion_data
       \/ last'.op # "visit_expansion"
       \/ \A mark \in DOMAIN expansion_data, expansion \in Expansions :
             ( /\ expansion.invoc # NoInvoc
               /\ expansion.invoc.id \in DOMAIN expansion_data )
             => ~visit_expansion(mark, expansion)]_vars

\* a collect has handed on an invocation whose entry was written by
\* get_module_scope for another module than the one collected in
C7_Witness ==
    /\ last.op = "visit_expansion"
    /\ last.ret.invoc # 0
    /\ last.ret.invoc \in DOMAIN expansion_data
    /\ expansion_data[last.ret.invoc].def_index \notin InvocDefIndexes
    /\ expansion_data[last.ret.invoc].module # last.ret.current_module

\* C8: no step removes or changes an entry of the registry, and
\* get_module_scope writes its entry under a mark that had none.
C8_RegistryEntriesStable ==
    [][/\ \A k \in DOMAIN expansion_data :
             k \in DOMAIN expansion_data' /\ expansion_data'[k] = expansion_data[k]
       /\ last'.op = "get_module_scope" =>
             \A id \in Modules :
                get_module_scope(id) =>
                   /\ last'.ret \notin DOMAIN expansion_data
                   /\ last'.ret \in DOMAIN expansion_data']_vars

\* an entry written by get_module_scope is there after installs and a resolve
C8_Witness ==
    /\ last.op = "resolve_invoc"
    /\ next_rc > 1
    /\ \E k \in DOMAIN expansion_data \ {RootMark} :
          /\ expansion_data[k].module # RootModule
          /\ expansion_data[k].def_index = ModuleDefIndex(expansion_data[k].module)

\* C9: after every step, every name a scope table binds to a call-style
\* (NormalTT) extension is in the known names, and the known names only
\* grow: every name ever bound to such an extension stays known.
C9_KnownNamesComplete ==
    /\ [](\A m \in Modules, n \in Names :
             macros[m][n].kind = "NormalTT" => n \in macro_names)
    /\ [][macro_names \subseteq macro_names']_vars

\* a name is known though no scope table binds it to a call-style extension
\* any more, and another is known though it cannot be resolved from the root
C9_Witness ==
    /\ last.op \in {"add_ext", "add_macro"}
    /\ ~panicked
    /\ \E n \in macro_names :
          \/ \A m \in Modules : macros[m][n].kind # "NormalTT"
          \/ Resolve(RootMark, CallOf(n)).ret = NoExt

C11_AllVisitedUnlessSingleExpr ==
    [][last'.op = "visit_expansion" =>
          \A mark \in DOMAIN expansion_data, expansion \in ExpansionsNested :
             visit_expansion(mark, expansion) =>
                last'.ret.visit =
                    IF expansion_data[mark].const_integer /\ expansion.is_expr
                    THEN "const_integer" ELSE "all"]_vars

\* C11, amended: with the mark's flag unset collect visits every node of the
\* output (a nested invocation among them has an entry afterwards); with the
\* flag set it visits only the expression, as a constant-integer position,
\* when the output is a single expression (an invocation elsewhere in the
\* output gets no entry), and visits nothing at all when the output is of
\* another kind (the registry stays as it is).
C11_NarrowedOrSkippedInNumericContext ==
    [][last'.op = "visit_expansion" =>
          \A mark \in DOMAIN expansion_data, expansion \in ExpansionsNested :
             visit_expansion(mark, expansion) =>
                IF ~expansion_data[mark].const_integer
                THEN /\ last'.ret.visit = "all"
                     /\ expansion.invoc # NoInvoc =>
                           expansion.invoc.id \in DOMAIN expansion_data'
                ELSE IF expansion.is_expr
                THEN /\ last'.ret.visit = "const_integer"
                     /\ (expansion.invoc # NoInvoc /\ ~expansion.at_top) =>
                           expansion_data' = expansion_data
                ELSE /\ last'.ret.visit = "none"
                     /\ expansion_data' = expansion_data]_vars

\* a collect under a mark in numeric context has visited nothing, and the
\* mark a nested invocation of its output carried has no entry
C11_Witness ==
    /\ last.op = "visit_expansion"
    /\ ~panicked
    /\ last.ret.visit = "none"
    /\ \E k \in MintedMarks : k \notin DOMAIN expansion_data

\* the known names within reach of a name: at most a third of its length
\* (of three, for a shorter name) in edits away
WithinReach(n) ==
    {c \in macro_names : Lev(n, c) <= (IF Len(n) > 3 THEN Len(n) ELSE 3) \div 3}

\* the helps a failed resolve of n can carry
HelpsFor(n) ==
    IF WithinReach(n) = {} THEN {NoHelp}
    ELSE IF n \in macro_names
    THEN {[kind |-> "have you added the #[macro_use] on the module/import?",
           name |-> NoName]}
    ELSE {[kind |-> "did you mean", name |-> c] :
             c \in {c \in WithinReach(n) :
                      \A d \in WithinReach(n) : Lev(n, c) <= Lev(n, d)}}

\* C12: a failed resolve of n emits "macro undefined" for n with the help
\* the best match of n over all known names decides: none without a match,
\* the hint to add #[macro_use] when n itself is known (bound somewhere the
\* mark cannot reach), "did you mean" naming the nearest known name
\* otherwise; with println and printfln known, prinltn gets println.
C12_HelpFromBestKnownName ==
    \A scope \in DOMAIN expansion_data, n \in SuggestNames :
        UnboundOnChain(scope, n) =>
            /\ Resolve(scope, CallOf(n)).diags =
                  {<<[msg |-> "macro undefined", name |-> n, help |-> h]>> :
                       h \in HelpsFor(n)}
            /\ (n = Name_prinltn /\ macro_names = {Name_println, Name_printfln}) =>
                  Resolve(scope, CallOf(n)).diags =
                     {<<[msg |-> "macro undefined", name |-> n,
                         help |-> [kind |-> "did you mean", name |-> Name_println]]>>}

\* println and printfln are known, one of them bound only where the root
\* mark cannot reach it, and a resolve has suggested println
C12_Witness ==
    /\ last.op = "resolve_invoc"
    /\ last.diag = <<[msg |-> "macro undefined", name |-> Name_prinltn,
                      help |-> [kind |-> "did you mean", name |-> Name_println]]>>
    /\ macro_names = {Name_println, Name_printfln}
    /\ UnboundOnChain(RootMark, Name_println)

\* C13: a mark returned by get_module_scope, the root mark, and the mark of
\* a nested invocation collect has handed on all have an entry, entries are
\* never lost, and a call that fails on its registry lookup was given a
\* mark without an entry: no call given a mark with an entry does.
C13_RegisteredMarksNeverFail ==
    [][/\ DOMAIN expansion_data \subseteq DOMAIN expansion_data'
       /\ RootMark \in DOMAIN expansion_data'
       /\ last'.op = "get_module_scope" => last'.ret \in DOMAIN expansion_data'
       /\ (last'.op = "visit_expansion" /\ ~panicked') =>
             (last'.ret.invoc # 0 => last'.ret.invoc \in DOMAIN expansion_data')
       /\ panicked' =>
             /\ last'.op # "find_attr_invoc"
             /\ last'.op = "resolve_invoc" =>
                   \A scope \in DOMAIN expansion_data, invoc \in Invocations :
                      ~resolve_invoc(scope, invoc)
             /\ last'.op = "add_ext" =>
                   \A scope \in DOMAIN expansion_data, ident \in Names,
                      kind \in ExtKinds : ~add_ext(scope, ident, kind)
             /\ last'.op = "add_macro" =>
                   \A scope \in DOMAIN expansion_data, def \in MacroDefs :
                      ~add_macro(scope, def)
             /\ last'.op = "visit_expansion" =>
                   \A mark \in DOMAIN expansion_data, expansion \in Expansions :
                      ~visit_expansion(mark, expansion)]_vars

\* an install under a mark that get_module_scope returned for a module below
\* the root has bound a name where that mark routes it
C13_Witness ==
    /\ last.op \in {"add_ext", "add_macro"}
    /\ ~panicked
    /\ \E k \in DOMAIN expansion_data \ {RootMark} :
          LET target == NearestNonEscaping(parent, macros_escape,
                                           expansion_data[k].module)
          IN /\ target # RootModule
             /\ \E n \in Names : macros[target][n].rc = NewestRc

\* C14: a collect that adds an entry adds it for the mark of the nested
\* invocation, which had none, with the module of the mark being collected
\* and the invocation's own identity root and numeric-context flag, and
\* leaves the other entries as they are.
C14_NewEntryInheritsCollectedModule ==
    [][(last'.op = "visit_expansion" /\ expansion_data' # expansion_data) =>
          \A mark \in DOMAIN expansion_data, expansion \in ExpansionsNested :
             visit_expansion(mark, expansion) =>
                /\ expansion.invoc.id \notin DOMAIN expansion_data
                /\ DOMAIN expansion_data' =
                      DOMAIN expansion_data \cup {expansion.invoc.id}
                /\ expansion_data'[expansion.invoc.id] =
                      [module |-> expansion_data[mark].module,
                       def_index |-> expansion.invoc.def_index,
                       const_integer |-> expansion.invoc.const_integer]
                /\ \A k \in DOMAIN expansion_data :
                      expansion_data'[k] = expansion_data[k]]_vars

\* a collect under a mark of a module below the root, itself not in numeric
\* context, has registered a nested invocation that is: the entry has that
\* module, the invocation's identity root and its flag
C14_Witness ==
    /\ last.op = "visit_expansion"
    /\ last.ret.invoc \in DOMAIN expansion_data \ {RootMark}
    /\ last.ret.current_module # RootModule
    /\ last.ret.visit = "all"
    /\ expansion_data[last.ret.invoc] =
          [module |-> last.ret.current_module, def_index |-> NumModules,
           const_integer |-> TRUE]

\* the registry with the entry of a mark moved to another module
Rehomed(scope, module) == [expansion_data EXCEPT ![scope].module = module]

\* C15: no scope table of an escaping module ever holds a binding, and a
\* resolve from a mark whose module escapes gives what a resolve started at
\* that module's nearest non-escaping ancestor gives, for every invocation.
C15_EscapingStartEqualsAncestorStart ==
    /\ \A m \in Modules, n \in Names : macros_escape[m] => macros[m][n] = NoExt
    /\ \A scope \in DOMAIN expansion_data, invoc \in Invocations :
          macros_escape[expansion_data[scope].module] =>
             LET here == Resolve(scope, invoc)
                 there == ResolveInvoc(parent, macros,
                             Rehomed(scope,
                                NearestNonEscaping(parent, macros_escape,
                                                   expansion_data[scope].module)),
                             macro_names, scope, invoc)
             IN here.ret = there.ret /\ here.diags = there.diags

\* a resolve has returned a binding that sits in a module below the root,
\* the nearest non-escaping ancestor of the escaping module of a mark
C15_Witness ==
    /\ last.op = "resolve_invoc"
    /\ last.ret # NoExt
    /\ \E scope \in DOMAIN expansion_data :
          LET m == expansion_data[scope].module
              t == NearestNonEscaping(parent, macros_escape, m)
          IN /\ macros_escape[m]
             /\ t # RootModule
             /\ \E n \in Names : macros[t][n] = last.ret

\* the node ids of the exported definitions
ExportedIds == {exported_macros[i].id : i \in DOMAIN exported_macros}

\* C16: add_macro of a definition with export set gives the definition a
\* node id that no exported definition has, and appends it at the end of the
\* exported list, whether or not use_locally is set; with export set and
\* use_locally unset no scope table and no known name changes; without
\* export the list is left alone; and no step removes or rewrites an element.
C16_ExportAppendsFreshId ==
    [][ /\ Len(exported_macros') >= Len(exported_macros)
        /\ SubSeq(exported_macros', 1, Len(exported_macros)) = exported_macros
        /\ last'.op = "add_macro" =>
             \A scope \in DOMAIN expansion_data, def \in MacroDefs :
                add_macro(scope, def) =>
                   IF def.export
                   THEN /\ \E id \in 1..MaxExported :
                             /\ id \notin ExportedIds \cup {NoNodeId}
                             /\ exported_macros' =
                                   Append(exported_macros, [def EXCEPT !.id = id])
                        /\ ~def.use_locally =>
                              macros' = macros /\ macro_names' = macro_names
                   ELSE exported_macros' = exported_macros
      ]_vars

\* two definitions exported without local use: two elements with different
\* node ids, every scope table and the known names still empty
C16_Witness ==
    /\ last.op = "add_macro"
    /\ Len(exported_macros) = 2
    /\ exported_macros[1].id # exported_macros[2].id
    /\ ~exported_macros[1].use_locally
    /\ ~exported_macros[2].use_locally
    /\ \A m \in Modules, n \in Names : macros[m][n] = NoExt
    /\ macro_names = {}

\* find_attr_invoc in the current state
FindAttr(attrs) == FindAttrInvoc(macros, expansion_data, attrs)

\* C17: find_attr_invoc looks only in the scope table of the module of mark
\* 0: the attribute it takes out is the first of the list whose name that
\* table binds to an attribute-kind extension. So an attribute-kind extension
\* that is the nearest binding of a name from a registered mark, while the
\* table of mark 0's module has no binding of the name, is taken out of no
\* attribute list, yet resolve of the attribute invocation of that name from
\* that mark returns it.
C17_AttrLookupRootOnly ==
    /\ \A attrs \in AttrLists :
          LET r == FindAttr(attrs)
              table == macros[expansion_data[RootMark].module]
          IN IF r.ret = NoAttribute
             THEN \A i \in DOMAIN attrs : ~IsAttrExt(table[attrs[i].name])
             ELSE /\ IsAttrExt(table[r.ret.name])
                  /\ attrs[r.ret.pos] = r.ret
                  /\ \A i \in 1 .. r.ret.pos - 1 : ~IsAttrExt(table[attrs[i].name])
    /\ \A scope \in DOMAIN expansion_data, n \in Names :
          LET ext == NearestBinding(parent, macros, expansion_data[scope].module, n)
          IN (IsAttrExt(ext) /\ macros[expansion_data[RootMark].module][n] = NoExt) =>
                /\ \A attrs \in AttrLists : FindAttr(attrs).ret.name # n
                /\ Resolve(scope, AttrInvoc(n)).ret = ext

\* find_attr_invoc has just run on a non-empty list and taken nothing out,
\* while every name of the list is bound to an attribute-kind extension in a
\* module below the root that a registered mark resolves it from
C17_Witness ==
    /\ last.op = "find_attr_invoc"
    /\ last.ret.attr = NoAttribute
    /\ last.ret.attrs # <<>>
    /\ \A i \in DOMAIN last.ret.attrs :
          \E scope \in DOMAIN expansion_data :
             LET n == last.ret.attrs[i].name
                 ext == Resolve(scope, AttrInvoc(n)).ret
             IN /\ IsAttrExt(ext)
                /\ macros[RootModule][n] = NoExt
                /\ expansion_data[scope].module # RootModule

\* C18: in every state the registry has an entry for mark 0, and it is the
\* one ExpansionData::root gave it: the crate root module, CRATE_DEF_INDEX,
\* const_integer false. No get_module_scope, visit_expansion, add_ext,
\* add_macro, find_attr_invoc or resolve_invoc changes it.
C18_RootEntryFixed ==
    /\ RootMark \in DOMAIN expansion_data
    /\ expansion_data[RootMark] =
          [module |-> RootModule, def_index |-> CRATE_DEF_INDEX,
           const_integer |-> FALSE]

\* collect has just run on the root expansion itself and registered the
\* invocation it found there, in a numeric context: the registry has a second
\* entry with another def_index and the flag set, next to the one of mark 0
C18_Witness ==
    /\ last.op = "visit_expansion"
    /\ \E mark \in DOMAIN expansion_data \ {RootMark} :
          /\ expansion_data[mark].module = RootModule
          /\ expansion_data[mark].def_index # CRATE_DEF_INDEX
          /\ expansion_data[mark].const_integer
    /\ expansion_data[RootMark] = ExpansionDataRoot(RootModule)

\* C19: a resolve_invoc step, whatever its outcome (an extension, the
\* malformed-path error, the undefined-macro error), leaves the scope tables,
\* the module tree, the registry, the known names and the exported list as
\* they were; so the resolve just made, made again in the state it left,
\* returns the same value with the same diagnostic.
C19_ResolveReadOnly ==
    /\ [](last.op = "resolve_invoc" =>
             \E scope \in MintedMarks, invoc \in Invocations :
                LET r == Resolve(scope, invoc)
                IN /\ r.ret = last.ret
                   /\ r.panicked = panicked
                   /\ last.diag \in r.diags)
    /\ [][ last'.op = "resolve_invoc" =>
              UNCHANGED <<parent, macros_escape, macros, expansion_data,
                          macro_names, exported_macros>>
         ]_vars

\* resolve has returned an extension it found in an ancestor of the mark's
\* module, whose own table still has no binding of the name
C19_Witness ==
    /\ last.op = "resolve_invoc"
    /\ last.ret # NoExt
    /\ \E scope \in DOMAIN expansion_data, n \in Names :
          /\ macros[expansion_data[scope].module][n] = NoExt
          /\ ~macros_escape[expansion_data[scope].module]
          /\ Resolve(scope, CallOf(n)).ret = last.ret

\* the number of parent links from module m up to the root
Depth(m) == Len(ParentChain(parent, m)) - 1

\* C20: on every tree of the modules, with any modules escaping, a resolve
\* of a call from a registered mark never aborts and consults at least one
\* and at most depth+1 scope tables (all depth+1 when it finds nothing); an
\* add_ext from a registered mark aborts exactly when every module from the
\* mark's module up to and including the root escapes, which cannot be when
\* the root does not escape, and otherwise binds the name in the nearest
\* non-escaping module.
C20_WalksEndOnEveryTree ==
    /\ [](\A scope \in DOMAIN expansion_data, n \in Names :
             LET r == Resolve(scope, CallOf(n))
                 d == Depth(expansion_data[scope].module)
             IN /\ ~r.panicked
                /\ 1 <= r.lookups
                /\ r.lookups <= d + 1
                /\ r.ret = NoExt => r.lookups = d + 1)
    /\ [](panicked => macros_escape[RootModule])
    /\ [][ last'.op = "add_ext" =>
              \A scope \in DOMAIN expansion_data, ident \in Names,
                 kind \in SuggestKinds :
                 add_ext(scope, ident, kind) =>
                    LET t == NearestNonEscaping(parent, macros_escape,
                                                expansion_data[scope].module)
                    IN /\ panicked' <=> t = NoModule
                       /\ t # NoModule =>
                             /\ ~macros_escape[t]
                             /\ macros'[t][ident] = Ext(kind, next_rc)
                       /\ t = NoModule => macros' = macros
         ]_vars

\* the failure: add_ext from a mark of the deepest module of a chain of
\* three, all of them escaping, the root included, has aborted
C20_Witness ==
    /\ last.op = "add_ext"
    /\ panicked
    /\ \A m \in Modules : macros_escape[m]
    /\ \E scope \in DOMAIN expansion_data :
          Depth(expansion_data[scope].module) = NumModules - 1

====
